---- MODULE Spec2Model ----
(***************************************************************************)
(* Model of app.py: the POST /api/generate-locator endpoint                *)
(* (handle_generate_locator), the locator requester                        *)
(* (generate_selenium_locator) and the response unwrapper                  *)
(* (deserialize_locator_string).                                           *)
(*                                                                         *)
(* A text (a Python str) is a sequence of tokens.  A token is one          *)
(* character of the text, or a literal of the source kept whole (an error  *)
(* message, the system prompt, the text of an exception).  Python's None   *)
(* is the value None below, which is no text.                              *)
(***************************************************************************)
EXTENDS Integers, Sequences, FiniteSets, TLC

\* ------------------------------------------------------------------------
\* Bounds of the model
\* ------------------------------------------------------------------------
\* longest text put between the fences of an unwrapper input
MaxLen == 4
\* longest text put between the fences of a chat reply
MaxReplyLen == 3

\* ------------------------------------------------------------------------
\* Characters
\* ------------------------------------------------------------------------
\* the backtick character
BT == "<backtick>"
SP == " "
NL == "\n"

\* str.strip() with no argument removes whitespace
WhitespaceChars == {SP, NL, "\t", "\r"}
\* characters for which str.isalpha() is true
AlphaChars ==
    {"a", "b", "c", "d", "e", "f", "g", "h", "i", "j", "k", "l", "m",
     "n", "o", "p", "q", "r", "s", "t", "u", "v", "w", "x", "y", "z"}
\* the characters the language-tag heuristic excludes (app.py line 147)
LocatorChars == {"=", "[", "/", "."}

\* the characters texts of the model are made of: a backtick, two kinds of
\* whitespace, a letter, a digit (neither alphabetic nor a locator character)
\* and two locator characters
Alphabet == {BT, SP, NL, "a", "1", "=", "/"}

None == <<"<None>">>

\* Python truthiness of a str-or-None value: None and "" are falsy
Truthy(v) == v /= None /\ v /= <<>>

\* ------------------------------------------------------------------------
\* str methods, computed the way Python computes them
\* ------------------------------------------------------------------------
RECURSIVE LStrip(_)
LStrip(s) ==
    IF s /= <<>> /\ Head(s) \in WhitespaceChars THEN LStrip(Tail(s)) ELSE s

RECURSIVE RStrip(_)
RStrip(s) ==
    IF s /= <<>> /\ s[Len(s)] \in WhitespaceChars
    THEN RStrip(SubSeq(s, 1, Len(s) - 1))
    ELSE s

\* s.strip()
Strip(s) == RStrip(LStrip(s))

\* s.startswith(p)
StartsWith(s, p) == Len(s) >= Len(p) /\ SubSeq(s, 1, Len(p)) = p

\* s.endswith(p)
EndsWith(s, p) ==
    Len(s) >= Len(p) /\ SubSeq(s, Len(s) - Len(p) + 1, Len(s)) = p

\* s[n:-n] for n > 0: empty when the two cuts meet or cross
CutEnds(s, n) ==
    IF Len(s) - n < n + 1 THEN <<>> ELSE SubSeq(s, n + 1, Len(s) - n)

\* s.isalpha(): false for the empty string
IsAlpha(s) == s /= <<>> /\ \A i \in 1..Len(s) : s[i] \in AlphaChars

\* any(c in s for c in chars)
ContainsAny(s, chars) == \E i \in 1..Len(s) : s[i] \in chars

\* index of the first newline of s, 0 if there is none
RECURSIVE FindNL(_, _)
FindNL(s, i) ==
    IF i > Len(s) THEN 0
    ELSE IF s[i] = NL THEN i
    ELSE FindNL(s, i + 1)

\* s.split(NL, 1): one part, or the parts before and after the first newline
SplitFirstLine(s) ==
    LET i == FindNL(s, 1)
    IN  IF i = 0 THEN <<s>>
        ELSE <<SubSeq(s, 1, i - 1), SubSeq(s, i + 1, Len(s))>>

\* len(s.split("=")): one more than the number of "=" in s
RECURSIVE CountEq(_)
CountEq(s) ==
    IF s = <<>> THEN 0
    ELSE (IF Head(s) = "=" THEN 1 ELSE 0) + CountEq(Tail(s))

SplitEqLen(s) == CountEq(s) + 1

\* ------------------------------------------------------------------------
\* deserialize_locator_string (app.py lines 123-155)
\* ------------------------------------------------------------------------
Fence3 == <<BT, BT, BT>>
Fence1 == <<BT>>

\* the test of line 147 with its "not" dropped
LanguageLineWithoutNot(lines) ==
    /\ IsAlpha(Strip(lines[1]))
    /\ ContainsAny(Strip(lines[1]), LocatorChars)
    /\ Strip(lines[2]) /= <<>>

\* the test of line 148 dropped
LanguageLineIgnoringRest(lines) ==
    /\ IsAlpha(Strip(lines[1]))
    /\ ~ContainsAny(Strip(lines[1]), LocatorChars)

\* lines 146-148: the first line is a language specifier
IsLanguageLine(lines) ==
    /\ IsAlpha(Strip(lines[1]))
    /\ ~ContainsAny(Strip(lines[1]), LocatorChars)
    /\ Strip(lines[2]) /= <<>>

\* lines 137-151: the branch taken for a triple-backtick block
UnwrapTriple(content) ==
    LET inner == CutEnds(content, 3)
        lines == SplitFirstLine(inner)
    IN  IF Len(lines) > 1 /\ IsLanguageLine(lines)
        THEN Strip(lines[2])
        ELSE Strip(inner)

\* line 153 without its strip()
UnwrapSingleNoStrip(content) == CutEnds(content, 1)

\* line 153: the branch taken for a single-backtick block
UnwrapSingle(content) == Strip(CutEnds(content, 1))

deserialize_locator_string(locator_block) ==
    LET content == Strip(locator_block)
    IN  IF StartsWith(content, Fence3) /\ EndsWith(content, Fence3)
        THEN UnwrapTriple(content)
        ELSE IF StartsWith(content, Fence1) /\ EndsWith(content, Fence1)
        THEN UnwrapSingle(content)
        ELSE content

\* ------------------------------------------------------------------------
\* Texts of the model
\* ------------------------------------------------------------------------
\* all texts over Alphabet of length at most n
TextsUpTo(n) == UNION {[1..k -> Alphabet] : k \in 0..n}

\* what a text is wrapped in: nothing, a single backtick, a fence, a fence
\* with whitespace outside it
Openers == {<<>>, Fence1, Fence3, <<NL>> \o Fence3}
Closers == {<<>>, Fence1, Fence3, Fence3 \o <<SP>>}

Wrapped(n) ==
    {pre \o mid \o post : pre \in Openers, post \in Closers, mid \in TextsUpTo(n)}

\* ------------------------------------------------------------------------
\* generate_selenium_locator (app.py lines 5-81)
\* ------------------------------------------------------------------------
\* line 16: the fixed system instruction
SystemMessage == <<"You are an expert AI assistant specializing in web automation and Selenium. ...">>

\* lines 38-47: the f-string that embeds the HTML and the description
FullPrompt(html_data, user_prompt) ==
    <<"Here is the HTML data:">> \o html_data
        \o <<"Here is the user's description of the target element:">>
        \o user_prompt \o <<"Generate the Selenium locator:">>

\* lines 54-67: the invocations of ollama.chat made for one call of
\* generate_selenium_locator, each with its model and its messages
TwoChatCalls(html_data, user_prompt, model_name) ==
    LET call == [model    |-> model_name,
                 messages |-> <<[role |-> "system", content |-> SystemMessage],
                                [role |-> "user",
                                 content |-> FullPrompt(html_data, user_prompt)]>>]
    IN  <<call, call>>

OllamaChat(html_data, user_prompt, model_name) ==
    <<[model    |-> model_name,
       messages |-> <<[role |-> "system", content |-> SystemMessage],
                      [role |-> "user",
                       content |-> FullPrompt(html_data, user_prompt)]>>]>>

\* line 72: the reply does not look like a standard locator
LooksSuspicious(generated_locator) ==
    ~Truthy(generated_locator) \/ SplitEqLen(generated_locator) < 2

\* a suspicious reply treated as a hard failure
ReturnNoneIfSuspicious(content) ==
    IF LooksSuspicious(Strip(content)) THEN None ELSE Strip(content)

\* lines 69 and 77: what is returned when ollama.chat returns
ReturnOnReply(content) == Strip(content)

\* the text of the exception handed back to the caller
ReturnExceptionText(e) == e

\* lines 79-81: what is returned when anything in the try block raises
ReturnOnException(e) == None

\* lines 70-73: the lines printed when ollama.chat returns
LogOnReply(content) ==
    <<"raw response">>
        \o (IF LooksSuspicious(Strip(content)) THEN <<"warning">> ELSE <<>>)

\* line 80: the line printed when ollama.chat raises
LogOnException(e) == <<"error interacting">>

\* ------------------------------------------------------------------------
\* handle_generate_locator (app.py lines 86-119)
\* ------------------------------------------------------------------------
NotJsonMessage == <<"Request must be JSON">>
MissingFieldMessage == <<"Missing 'html_data' or 'user_prompt' in JSON payload">>
GenericErrorMessage == <<"Could not generate locator or an internal error occurred">>
DefaultModelName == <<"llama3.2:latest">>

\* jsonify of a dict with one key
Jsonify(key, value) == [key |-> key, value |-> value]

NoResponse == [status |-> 0, body |-> Jsonify("none", <<>>)]

\* the mimetype check never made
AlwaysJson(req) == TRUE

\* line 96: request.is_json looks at the Content-Type header only
IsJson(req) == req.is_json

\* line 99: request.get_json() parses the body; on a body that does not parse
\* it raises BadRequest, which Flask answers with its own 400 page
BadRequestResponse ==
    [status |-> 400, body |-> Jsonify("framework error page", <<"400 Bad Request">>)]

\* data.get(key): None for a key the payload does not have
Get(req, key) == req.payload[key]

\* the test "is None" in place of the truth test
MissingIsNone(html_data, user_prompt) == html_data = None \/ user_prompt = None

\* line 105
MissingField(html_data, user_prompt) == ~Truthy(html_data) \/ ~Truthy(user_prompt)

\* line 103: data.get('model_name', 'llama3.2:latest')
ModelName(req) ==
    IF Get(req, "model_name") = None THEN DefaultModelName ELSE Get(req, "model_name")

\* the locator sent back as it came
RespondRaw(locator) ==
    IF Truthy(locator)
    THEN [status |-> 200, body |-> Jsonify("locator", locator)]
    ELSE [status |-> 500, body |-> Jsonify("error", GenericErrorMessage)]

\* lines 112-119
Respond(locator) ==
    IF Truthy(locator)
    THEN [status |-> 200, body |-> Jsonify("locator", deserialize_locator_string(locator))]
    ELSE [status |-> 500, body |-> Jsonify("error", GenericErrorMessage)]

\* ------------------------------------------------------------------------
\* Inputs
\* ------------------------------------------------------------------------
\* a field of the payload: absent, the empty string, or a text
FieldValues == {None, <<>>, <<"a">>}
ModelNames == {None, <<"mistral">>}

\* the payload of a body that does not parse has no fields
NoPayload == [html_data |-> None, user_prompt |-> None, model_name |-> None]

\* A request: its Content-Type says JSON or not, its body parses as a JSON
\* object or does not parse, and the object's fields are strings or absent
\* (the request schema of the endpoint).
Requests ==
    {[is_json |-> j, parses |-> TRUE,
      payload |-> [html_data |-> h, user_prompt |-> u, model_name |-> m]] :
        j \in BOOLEAN, h \in FieldValues, u \in FieldValues, m \in ModelNames}
    \cup {[is_json |-> j, parses |-> FALSE, payload |-> NoPayload] : j \in BOOLEAN}

\* the reply of the worked example: the locator xpath=//button[@id='go'] in a
\* fence without a language line
ExampleLocator ==
    <<"x", "p", "a", "t", "h", "=", "/", "/", "b", "u", "t", "t", "o", "n",
      "[", "@", "i", "d", "=", "'", "g", "o", "'", "]">>
ExampleReply == Fence3 \o <<NL>> \o ExampleLocator \o <<NL>> \o Fence3

\* what ollama.chat can answer with, and what it can raise
Replies == Wrapped(MaxReplyLen) \cup {ExampleReply}
ExceptionTexts == {<<"ConnectionError: connection refused">>,
                   <<"ResponseError: model not found">>}

NoChatResult == [kind |-> "none", text |-> <<>>]

\* ------------------------------------------------------------------------
\* State
\* ------------------------------------------------------------------------
VARIABLES
    pc,          \* where the handler is: "received", "awaiting chat", "responded", "off"
    request,     \* the request being handled
    parsed,      \* request.get_json() has been called
    inspected,   \* the payload keys read with data.get
    chatCalls,   \* the invocations of ollama.chat made for this request
    chatResult,  \* how ollama.chat ended: a reply, or an exception
    locator,     \* what generate_selenium_locator returned
    log,         \* the lines printed while handling this request
    response,    \* the response of the endpoint
    input,       \* unwrapper alone: the text handed to deserialize_locator_string
    bare,        \* unwrapper alone: the locator the input was made from, or None
    once,        \* unwrapper alone: deserialize_locator_string(input)
    twice,       \* unwrapper alone: deserialize_locator_string(once)
    step         \* unwrapper alone: "fresh", "once", "twice", "off"

handlerVars == <<pc, request, parsed, inspected, chatCalls, chatResult, locator, log, response>>
unwrapVars == <<input, bare, once, twice, step>>
vars == <<pc, request, parsed, inspected, chatCalls, chatResult, locator, log,
          response, input, bare, once, twice, step>>

Fields == {"html_data", "user_prompt", "model_name"}

\* a request has arrived and nothing has been done with it
Arrive(req) ==
    /\ pc' = "received"
    /\ request' = req
    /\ parsed' = FALSE
    /\ inspected' = {}
    /\ chatCalls' = <<>>
    /\ chatResult' = NoChatResult
    /\ locator' = None
    /\ log' = <<>>
    /\ response' = NoResponse

Init ==
    /\ \E req \in Requests :
        /\ pc = "received"
        /\ request = req
    /\ parsed = FALSE
    /\ inspected = {}
    /\ chatCalls = <<>>
    /\ chatResult = NoChatResult
    /\ locator = None
    /\ log = <<>>
    /\ response = NoResponse
    /\ input = None
    /\ bare = None
    /\ once = None
    /\ twice = None
    /\ step = "off"

\* lines 96-97
RejectNotJson ==
    /\ pc = "received"
    /\ ~IsJson(request)
    /\ response' = [status |-> 400, body |-> Jsonify("error", NotJsonMessage)]
    /\ pc' = "responded"
    /\ UNCHANGED <<request, parsed, inspected, chatCalls, chatResult, locator, log>>
    /\ UNCHANGED unwrapVars

\* line 99, the body does not parse: get_json raises BadRequest
JsonLoadingFails ==
    /\ pc = "received"
    /\ IsJson(request)
    /\ ~request.parses
    /\ parsed' = TRUE
    /\ response' = BadRequestResponse
    /\ pc' = "responded"
    /\ UNCHANGED <<request, inspected, chatCalls, chatResult, locator, log>>
    /\ UNCHANGED unwrapVars

\* lines 99-106
RejectMissingField ==
    /\ pc = "received"
    /\ IsJson(request)
    /\ request.parses
    /\ MissingField(Get(request, "html_data"), Get(request, "user_prompt"))
    /\ parsed' = TRUE
    /\ inspected' = Fields
    /\ response' = [status |-> 400, body |-> Jsonify("error", MissingFieldMessage)]
    /\ pc' = "responded"
    /\ UNCHANGED <<request, chatCalls, chatResult, locator, log>>
    /\ UNCHANGED unwrapVars

\* lines 99-110 and 49-67: the payload is valid, generate_selenium_locator is
\* entered and blocks in ollama.chat
CallChat ==
    /\ pc = "received"
    /\ IsJson(request)
    /\ request.parses
    /\ ~MissingField(Get(request, "html_data"), Get(request, "user_prompt"))
    /\ parsed' = TRUE
    /\ inspected' = Fields
    /\ log' = <<"received", "sending">>
    /\ chatCalls' = chatCalls \o OllamaChat(Get(request, "html_data"),
                                           Get(request, "user_prompt"),
                                           ModelName(request))
    /\ pc' = "awaiting chat"
    /\ UNCHANGED <<request, chatResult, locator, response>>
    /\ UNCHANGED unwrapVars

\* lines 69-77 and 112-119: ollama.chat returns a reply
ChatReturns ==
    /\ pc = "awaiting chat"
    /\ \E content \in Replies :
        /\ chatResult' = [kind |-> "reply", text |-> content]
        /\ locator' = ReturnOnReply(content)
        /\ log' = log \o LogOnReply(content)
        /\ response' = Respond(ReturnOnReply(content))
    /\ pc' = "responded"
    /\ UNCHANGED <<request, parsed, inspected, chatCalls>>
    /\ UNCHANGED unwrapVars

\* lines 79-81 and 112-119: ollama.chat raises
ChatRaises ==
    /\ pc = "awaiting chat"
    /\ \E e \in ExceptionTexts :
        /\ chatResult' = [kind |-> "raise", text |-> e]
        /\ locator' = ReturnOnException(e)
        /\ log' = log \o LogOnException(e)
        /\ response' = Respond(ReturnOnException(e))
    /\ pc' = "responded"
    /\ UNCHANGED <<request, parsed, inspected, chatCalls>>
    /\ UNCHANGED unwrapVars

\* the next request arrives; nothing is kept from the one before
NextRequest ==
    /\ pc = "responded"
    /\ \E req \in Requests : Arrive(req)
    /\ UNCHANGED unwrapVars

Next ==
    \/ RejectNotJson
    \/ JsonLoadingFails
    \/ RejectMissingField
    \/ CallChat
    \/ ChatReturns
    \/ ChatRaises
    \/ NextRequest

Spec == Init /\ [][Next]_vars

\* ------------------------------------------------------------------------
\* The unwrapper alone
\* ------------------------------------------------------------------------
\* the tag line of a fenced block
XPathTag == <<"x", "p", "a", "t", "h">>

\* a locator in a fence with an xpath language line, and in a fence with none
FenceWithTag(L) == Fence3 \o XPathTag \o <<NL>> \o L \o <<NL>> \o Fence3
FenceNoTag(L) == Fence3 \o <<NL>> \o L \o <<NL>> \o Fence3

InitUnwrap ==
    /\ \/ /\ bare = None
          /\ input \in Wrapped(MaxLen)
       \/ /\ bare \in TextsUpTo(MaxLen)
          /\ input \in {FenceWithTag(bare), FenceNoTag(bare)}
    /\ once = None
    /\ twice = None
    /\ step = "fresh"
    /\ pc = "off"
    /\ request = [is_json |-> FALSE, parses |-> FALSE, payload |-> NoPayload]
    /\ parsed = FALSE
    /\ inspected = {}
    /\ chatCalls = <<>>
    /\ chatResult = NoChatResult
    /\ locator = None
    /\ log = <<>>
    /\ response = NoResponse

\* deserialize_locator_string applied to the input
Unwrap ==
    /\ step = "fresh"
    /\ once' = deserialize_locator_string(input)
    /\ step' = "once"
    /\ UNCHANGED <<input, bare, twice>>
    /\ UNCHANGED handlerVars

\* deserialize_locator_string applied to its own result
UnwrapAgain ==
    /\ step = "once"
    /\ twice' = deserialize_locator_string(once)
    /\ step' = "twice"
    /\ UNCHANGED <<input, bare, once>>
    /\ UNCHANGED handlerVars

NextUnwrap == Unwrap \/ UnwrapAgain

SpecUnwrap == InitUnwrap /\ [][NextUnwrap]_vars

\* ------------------------------------------------------------------------
\* Properties of the endpoint (specification Spec)
\* ------------------------------------------------------------------------
\* a text that is missing or empty
Blank(v) == v = None \/ v = <<>>

\* the request carries a JSON object with both required fields non-empty
PassesValidation(req) ==
    /\ req.is_json
    /\ req.parses
    /\ ~Blank(req.payload.html_data)
    /\ ~Blank(req.payload.user_prompt)

\* the token tok occurs in the text
Occurs(tok, text) == \E i \in 1..Len(text) : text[i] = tok

ErrorResponse(status, message) == [status |-> status, body |-> [key |-> "error", value |-> message]]
LocatorResponse(text) == [status |-> 200, body |-> [key |-> "locator", value |-> text]]

C2_BodyNotJsonRejected ==
    (pc = "responded" /\ ~request.parses)
    => /\ response = ErrorResponse(400, NotJsonMessage)
       /\ ~parsed
       /\ inspected = {}

\* C2 as amended: every request whose Content-Type does not say JSON is
\* answered 400 with the message "Request must be JSON", before the body is
\* parsed or any payload field is inspected, whatever the body is; a request
\* that says JSON and whose body does not parse is answered by the 400 that
\* request.get_json() raises, with no payload field inspected.
C2_ContentTypeNotJsonRejected ==
    /\ (pc = "responded" /\ ~request.is_json)
       => /\ response = ErrorResponse(400, NotJsonMessage)
          /\ ~parsed
          /\ inspected = {}
    /\ (pc = "responded" /\ request.is_json /\ ~request.parses)
       => /\ response = BadRequestResponse
          /\ parsed
          /\ inspected = {}

C2_Witness ==
    /\ pc = "responded"
    /\ ~request.is_json
    /\ request.parses
    /\ ~Blank(request.payload.html_data)
    /\ ~Blank(request.payload.user_prompt)
    /\ response = ErrorResponse(400, NotJsonMessage)
    /\ ~parsed

\* C3: when the call of the chat service raises for a request that passed
\* validation, generate_selenium_locator returns None and the endpoint
\* answers 500 with exactly the static generic message; the text of the
\* exception is nowhere in the response.
C3_ChatFailureIsGeneric500 ==
    (pc = "responded" /\ chatResult.kind = "raise")
    => /\ PassesValidation(request)
       /\ locator = None
       /\ response = ErrorResponse(500, GenericErrorMessage)
       /\ \A i \in 1..Len(chatResult.text) :
            ~Occurs(chatResult.text[i], response.body.value)

C3_Witness ==
    /\ pc = "responded"
    /\ chatResult = [kind |-> "raise", text |-> <<"ConnectionError: connection refused">>]
    /\ locator = None
    /\ response.status = 500

\* C6 as stated: whenever the endpoint answers 200, the locator of the
\* response body is non-empty, whatever the chat service replied.
C6_SuccessHasNonEmptyLocator ==
    response.status = 200
    => /\ response.body.key = "locator"
       /\ response.body.value /= <<>>

\* the text has no "=" in it
NoEquals(text) == ~Occurs("=", text)

\* the reply of the chat service, trimmed, is empty or has no "="
SuspiciousReply ==
    /\ pc = "responded"
    /\ chatResult.kind = "reply"
    /\ (Strip(chatResult.text) = <<>> \/ NoEquals(Strip(chatResult.text)))

\* C7 as stated: a reply that is empty or has no "=" is logged as
\* suspicious, returned as it is by generate_selenium_locator, the warning is
\* not in the response, and the request is answered as a success.
C7_SuspiciousReplyIsSuccess ==
    SuspiciousReply
    => /\ Occurs("warning", log)
       /\ locator = Strip(chatResult.text)
       /\ ~Occurs("warning", response.body.value)
       /\ response.status = 200

\* C7 as amended: a reply that is empty or has no "=" is logged as
\* suspicious and returned as it is (trimmed) by generate_selenium_locator,
\* and the warning is not in the response; if the trimmed reply is non-empty
\* the request is answered 200 with the unwrapped reply, and if it is empty
\* the request is answered 500 with the generic message.
C7_SuspiciousReplyNotBlockedUnlessEmpty ==
    SuspiciousReply
    => /\ Occurs("warning", log)
       /\ locator = Strip(chatResult.text)
       /\ ~Occurs("warning", response.body.value)
       /\ Strip(chatResult.text) /= <<>>
          => response = LocatorResponse(deserialize_locator_string(locator))
       /\ Strip(chatResult.text) = <<>>
          => response = ErrorResponse(500, GenericErrorMessage)

C7_Witness ==
    /\ pc = "responded"
    /\ chatResult = [kind |-> "reply", text |-> <<"a", "/", "a">>]
    /\ Occurs("warning", log)
    /\ locator = <<"a", "/", "a">>
    /\ response = LocatorResponse(<<"a", "/", "a">>)

\* C8 as stated: for every request with non-empty html_data and user_prompt
\* for which the chat service returns a reply r without error, the endpoint
\* answers 200 with the locator that the unwrapper gives for the trimmed r.
C8_EveryReplyIsUnwrapped ==
    (pc = "responded" /\ chatResult.kind = "reply")
    => response = LocatorResponse(deserialize_locator_string(Strip(chatResult.text)))

\* C8 as amended: for every request with non-empty html_data and user_prompt
\* for which the chat service returns without error a reply r that is not
\* empty once trimmed, the endpoint answers 200 with the locator that the
\* unwrapper gives for the trimmed r; the reply of the worked example yields
\* exactly its locator.
C8_NonEmptyReplyIsUnwrapped ==
    /\ (pc = "responded" /\ chatResult.kind = "reply" /\ Strip(chatResult.text) /= <<>>)
       => /\ PassesValidation(request)
          /\ response = LocatorResponse(deserialize_locator_string(Strip(chatResult.text)))
    /\ (pc = "responded" /\ chatResult.kind = "reply" /\ chatResult.text = ExampleReply)
       => response = LocatorResponse(ExampleLocator)

C8_Witness ==
    /\ pc = "responded"
    /\ PassesValidation(request)
    /\ chatResult = [kind |-> "reply", text |-> ExampleReply]
    /\ response = LocatorResponse(ExampleLocator)

\* C10: a request that passes validation causes exactly one invocation of
\* the chat service, made before the response is produced, with a system
\* message followed by a user message; there is never a second one, neither
\* after a failure of the call nor after a suspicious reply.
C10_ExactlyOneChatCall ==
    /\ Len(chatCalls) <= 1
    /\ pc = "awaiting chat"
       => /\ Len(chatCalls) = 1
          /\ response = NoResponse
    /\ (pc = "responded" /\ PassesValidation(request))
       => /\ Len(chatCalls) = 1
          /\ chatResult.kind \in {"reply", "raise"}
    /\ \A i \in 1..Len(chatCalls) :
         /\ Len(chatCalls[i].messages) = 2
         /\ chatCalls[i].messages[1].role = "system"
         /\ chatCalls[i].messages[2].role = "user"

C10_Witness ==
    /\ pc = "responded"
    /\ PassesValidation(request)
    /\ chatResult.kind = "raise"
    /\ Len(chatCalls) = 1
    /\ response.status = 500

\* ------------------------------------------------------------------------
\* Properties of the unwrapper (specification SpecUnwrap)
\* ------------------------------------------------------------------------
\* the text starts and ends with a backtick
InBackticks(text) == text /= <<>> /\ text[1] = BT /\ text[Len(text)] = BT

\* C4 as stated: the unwrapper is idempotent.
C4_Idempotent == step = "twice" => twice = once

\* C4 as amended: unwrapping the unwrapper's result changes nothing exactly
\* when that result does not both start and end with a backtick; a result
\* that is still in backticks (from nested or repeated fences) is unwrapped
\* further by a second application.
C4_IdempotentUnlessStillInBackticks ==
    step = "twice" => (twice = once <=> ~InBackticks(once))

C4_Witness ==
    /\ step = "twice"
    /\ input = Fence3 \o <<"a", "=", "1">> \o Fence3
    /\ once = <<"a", "=", "1">>
    /\ twice = once

\* the input was made by putting the locator bare in a fence
RoundTripCase ==
    /\ step /= "fresh"
    /\ bare /= None
    /\ \E i \in 1..Len(bare) : bare[i] \in LocatorChars

\* C5 as stated: for every locator L with one of = / . [ in it, unwrapping L
\* in a fence with an xpath language line gives L, and so does unwrapping L
\* in a fence with no language line.
C5_RoundTrip == RoundTripCase => once = bare

\* the text has no whitespace at either end
Trimmed(text) ==
    text = <<>> \/ (text[1] \notin WhitespaceChars /\ text[Len(text)] \notin WhitespaceChars)

\* C5 as amended: for every locator L with one of = / . [ in it and no
\* whitespace at either end, unwrapping L in a fence with an xpath language
\* line gives L, and so does unwrapping L in a fence with no language line;
\* for an L with whitespace at an end both give L trimmed.
C5_RoundTripOfTrimmed ==
    RoundTripCase
    => /\ Trimmed(bare) => once = bare
       /\ once = Strip(bare)

C5_Witness ==
    /\ step = "once"
    /\ bare = <<"a", "=", "/", "1">>
    /\ input = FenceWithTag(bare)
    /\ once = bare

\* position i holds the first newline of the text
FirstNewlineAt(text, i) == text[i] = NL /\ \A j \in 1..(i - 1) : text[j] /= NL

\* the line before position i, trimmed, is made of letters only, with none of
\* the locator characters
TagBefore(text, i) ==
    LET first == Strip(SubSeq(text, 1, i - 1))
    IN  /\ first /= <<>>
        /\ \A k \in 1..Len(first) : first[k] \in AlphaChars /\ first[k] \notin LocatorChars

\* something that is not whitespace follows position i
NonBlankAfter(text, i) == \E k \in (i + 1)..Len(text) : text[k] \notin WhitespaceChars

====
